---------------------------- MODULE Spec2Model ----------------------------
(***************************************************************************)
(* A model of bird2md.py (x-hot-tweet-md): the translator gate with its    *)
(* memo cache, the three Markdown renderers, the formatting helpers and    *)
(* main().                                                                 *)
(*                                                                         *)
(* Text is a sequence of characters.  A character of a tweet is a one      *)
(* character string; a literal piece of an f-string template is kept as    *)
(* one element of the line it is written to, so a rendered line is the     *)
(* sequence of its pieces in order and the document a sequence of lines.   *)
(***************************************************************************)
EXTENDS Integers, Sequences, FiniteSets, TLC

VARIABLES
    translator,         \* the module global _translator
    translate_cache,    \* the module global _translate_cache
    asked,              \* cleaned text -> number of provider calls made for it
    first_reply,        \* cleaned text -> what the first provider call for it returned
    last,               \* the latest translate_text call: its text, path and result
    arg, ret,           \* the argument a function is applied to, and its result
    docs,               \* the documents a renderer returned so far in this process
    pc,                 \* where main() is
    args,               \* the parsed command line
    installed,          \* whether deep_translator can be imported
    files,              \* the file system: path -> text
    stdin,              \* the text on standard input
    main_data,          \* main()'s data, once loaded
    md,                 \* main()'s md, once rendered
    stdout, stderr,     \* what was printed to each stream, in order
    exit_code           \* the status the process ended with

tvars == <<translator, translate_cache, asked, first_reply, last>>
hvars == <<arg, ret>>
mvars == <<pc, args, installed, files, stdin, main_data, md, stdout, stderr, exit_code>>
vars == <<tvars, hvars, docs, mvars>>

-----------------------------------------------------------------------------
(* Bounds of the model.                                                    *)

MaxProviderCalls == 2
MaxScript == 3
MaxLatin == 17
MaxWindow == 60

-----------------------------------------------------------------------------
(* Characters, by the classes the program's regular expressions see.       *)

Whitespace == {" ", "\n"}
AsciiWord == {"a", "b", "h", "t", "p", "s", "_", "1", "U", "n", "k", "o", "w"}
\* One ideograph of U+4E00..U+9FFF, one kana of U+3040..U+30FF and one Hangul
\* syllable of U+AC00..U+D7AF, each a single character, written by name.
Ideograph == {"<zh>"}
Kana == {"<ka>"}
Hangul == {"<ko>"}

\* Concatenation of a sequence of sequences.
\* str.strip(): leading and trailing whitespace removed.
RECURSIVE lstrip(_)
lstrip(s) ==
    IF s # <<>> /\ Head(s) \in Whitespace THEN lstrip(Tail(s)) ELSE s

RECURSIVE rstrip(_)
rstrip(s) ==
    IF s # <<>> /\ s[Len(s)] \in Whitespace
    THEN rstrip(SubSeq(s, 1, Len(s) - 1))
    ELSE s

strip(s) == rstrip(lstrip(s))

\* Whether s holds the characters of w from position i on.
StartsAt(s, i, w) ==
    /\ i + Len(w) - 1 <= Len(s)
    /\ \A k \in 1..Len(w) : s[i + k - 1] = w[k]

\* The position after the longest run of characters of class C from i on.
RECURSIVE RunEnd(_, _, _)
RunEnd(s, i, C) ==
    IF i <= Len(s) /\ s[i] \in C THEN RunEnd(s, i + 1, C) ELSE i

\* The position after the longest run of non-whitespace (\S) from i on.
RECURSIVE NonSpaceEnd(_, _)
NonSpaceEnd(s, i) ==
    IF i <= Len(s) /\ s[i] \notin Whitespace THEN NonSpaceEnd(s, i + 1) ELSE i

\* Where a match of https?://\S+ that starts at i ends (exclusive), or 0.
UrlMatchEnd(s, i) ==
    LET http == <<"h", "t", "t", "p">>
        sep == <<":", "/", "/">>
        j == IF StartsAt(s, i, http)
             THEN IF StartsAt(s, i + 4, <<"s">> \o sep) THEN i + 8
                  ELSE IF StartsAt(s, i + 4, sep) THEN i + 7
                  ELSE 0
             ELSE 0
    IN  IF j = 0 THEN 0
        ELSE IF NonSpaceEnd(s, j) > j THEN NonSpaceEnd(s, j) ELSE 0

\* re.sub(r"https?://\S+", "", s), scanning from position i.
RECURSIVE sub_urls(_, _)
sub_urls(s, i) ==
    IF i > Len(s) THEN <<>>
    ELSE IF UrlMatchEnd(s, i) # 0 THEN sub_urls(s, UrlMatchEnd(s, i))
    ELSE <<s[i]>> \o sub_urls(s, i + 1)

\* Where a match of @[A-Za-z0-9_]+ that starts at i ends (exclusive), or 0.
MentionMatchEnd(s, i) ==
    IF i <= Len(s) /\ s[i] = "@" /\ RunEnd(s, i + 1, AsciiWord) > i + 1
    THEN RunEnd(s, i + 1, AsciiWord)
    ELSE 0

\* re.sub(r"@[A-Za-z0-9_]+", "", s), scanning from position i.
RECURSIVE sub_mentions(_, _)
sub_mentions(s, i) ==
    IF i > Len(s) THEN <<>>
    ELSE IF MentionMatchEnd(s, i) # 0 THEN sub_mentions(s, MentionMatchEnd(s, i))
    ELSE <<s[i]>> \o sub_mentions(s, i + 1)

\* The two assignments to `cleaned` in translate_text.
cleaned_text(text) ==
    strip(sub_mentions(strip(sub_urls(text, 1)), 1))

-----------------------------------------------------------------------------
(* The translator gate.                                                    *)

\* _translator is None, or a GoogleTranslator with a target language.
NoTranslator == [set |-> FALSE, target |-> ""]
Translator(lang) == [set |-> TRUE, target |-> lang]

\* len(re.findall(r"[<class>]", text))
RECURSIVE CountIn(_, _)
CountIn(text, C) ==
    IF text = <<>> THEN 0
    ELSE (IF Head(text) \in C THEN 1 ELSE 0) + CountIn(Tail(text), C)

Max(a, b) == IF a >= b THEN a ELSE b

\* target.startswith("zh")
StartsWithZh(target) == target \in {"zh-CN", "zh-TW"}

\* ratio > 0.3 and ratio > 0.15, with ratio = count / max(len(text), 1): the
\* quotient of two integers below 2^53 is correctly rounded, and so is the
\* literal, so the comparison of the doubles is that of the exact fractions.
already_at_or_above(text, tr) ==
    IF ~tr.set THEN FALSE
    ELSE IF StartsWithZh(tr.target)
    THEN 10 * CountIn(text, Ideograph) >= 3 * Max(Len(text), 1)
    ELSE IF tr.target = "ja"
    THEN 100 * CountIn(text, Kana) >= 15 * Max(Len(text), 1)
    ELSE IF tr.target = "ko"
    THEN 10 * CountIn(text, Hangul) >= 3 * Max(Len(text), 1)
    ELSE FALSE

already_in_target_lang(text, tr) ==
    IF ~tr.set THEN FALSE
    ELSE IF StartsWithZh(tr.target)
    THEN 10 * CountIn(text, Ideograph) > 3 * Max(Len(text), 1)
    ELSE IF tr.target = "ja"
    THEN 100 * CountIn(text, Kana) > 15 * Max(Len(text), 1)
    ELSE IF tr.target = "ko"
    THEN 10 * CountIn(text, Hangul) > 3 * Max(Len(text), 1)
    ELSE FALSE

\* What _translator.translate(cleaned) does: it returns a string (possibly
\* empty), returns None, or raises.
Str(v) == [kind |-> "str", val |-> v]
ReplyNone == [kind |-> "none", val |-> <<>>]
ReplyRaise == [kind |-> "raise", val |-> <<>>]

EmptyCache == [k \in {} |-> <<>>]
CachePut(cache, key, v) ==
    [k \in DOMAIN cache \cup {key} |-> IF k = key THEN v ELSE cache[k]]

\* The try/except of translate_text: the provider call and the cache write.
\* raised: whether an exception leaves translate_text.
provider_uncached_failure(cleaned, cache, reply) ==
    IF reply.kind = "raise"
    THEN [ret |-> <<>>, cache |-> cache, path |-> "provider_raise", raised |-> FALSE]
    ELSE [ret |-> reply.val, cache |-> CachePut(cache, cleaned, reply.val),
          path |-> "provider_ok", raised |-> FALSE]

provider_propagates(cleaned, cache, reply) ==
    IF reply.kind = "raise"
    THEN [ret |-> <<>>, cache |-> cache, path |-> "provider_raise", raised |-> TRUE]
    ELSE [ret |-> reply.val, cache |-> CachePut(cache, cleaned, reply.val),
          path |-> "provider_ok", raised |-> FALSE]

provider_call(cleaned, cache, reply) ==
    IF reply.kind = "raise"
    THEN [ret |-> <<>>, cache |-> CachePut(cache, cleaned, <<>>),
          path |-> "provider_raise", raised |-> FALSE]
    ELSE [ret |-> reply.val, cache |-> CachePut(cache, cleaned, reply.val),
          path |-> "provider_ok", raised |-> FALSE]

\* The guards of translate_text before the cache lookup, given the text and
\* its cleaned form: the return statement taken, or "pass".
gate_no_lang_check(text, cleaned, tr) ==
    IF ~tr.set \/ text = <<>> \/ strip(text) = <<>> THEN "off_or_blank"
    ELSE IF cleaned = <<>> THEN "empty_cleaned"
    ELSE "pass"

gate(text, cleaned, tr) ==
    IF ~tr.set \/ text = <<>> \/ strip(text) = <<>> THEN "off_or_blank"
    ELSE IF cleaned = <<>> THEN "empty_cleaned"
    ELSE IF already_in_target_lang(cleaned, tr) THEN "in_target"
    ELSE "pass"

\* translate_text(text) with _translator = tr and _translate_cache = cache,
\* the provider answering `reply` if it is called.
translate_text_no_lookup(text, tr, cache, reply) ==
    LET cleaned == cleaned_text(text)
        g == gate(text, cleaned, tr)
    IN  IF g # "pass"
        THEN [ret |-> <<>>, cache |-> cache, path |-> g, raised |-> FALSE]
        ELSE provider_call(cleaned, cache, reply)

translate_text(text, tr, cache, reply) ==
    LET cleaned == cleaned_text(text)
        g == gate(text, cleaned, tr)
    IN  IF g # "pass"
        THEN [ret |-> <<>>, cache |-> cache, path |-> g, raised |-> FALSE]
        ELSE IF cleaned \in DOMAIN cache
        THEN [ret |-> cache[cleaned], cache |-> cache, path |-> "hit", raised |-> FALSE]
        ELSE provider_call(cleaned, cache, reply)

ProviderPaths == {"provider_ok", "provider_raise"}
EarlyPaths == {"off_or_blank", "empty_cleaned", "in_target"}

-----------------------------------------------------------------------------
(* Inputs.                                                                 *)

Url == <<"h", "t", "t", "p", ":", "/", "/", "t">>
Urls == <<"h", "t", "t", "p", "s", ":", "/", "/", "t">>
Mention == <<"@", "a">>

\* Tweet texts: a body, bare or with a URL in front, a mention behind, or both.
Bodies == {<<>>, <<" ">>, <<"a">>, <<"a", " ", "a">>, <<"<zh>">>,
           <<"a", "<zh>", "a", "a">>}
Texts == {pre \o body \o post :
            pre \in {<<>>, Urls \o <<" ">>}, body \in Bodies,
            post \in {<<>>, <<" ">> \o Mention}}

Translation == <<"t", "r">>
Replies == {Str(Translation), Str(<<>>), ReplyNone, ReplyRaise}

NoCall == [cleaned |-> <<>>, blank |-> TRUE, decorated |-> FALSE,
           path |-> "none", ret |-> <<>>, changed |-> FALSE]

\* A function not applied yet, and its result once it returned.
Pending == [done |-> FALSE]
Returned(v) == [done |-> TRUE, val |-> v]

IdleHarness == arg = <<>> /\ ret = Pending

\* main() not running, and nothing for it to read or to have written.
NoArgs == [mode |-> "", file |-> "", output |-> "", option |-> "", translate |-> ""]
Unset == [set |-> FALSE]
Value(v) == [set |-> TRUE, val |-> v]
IdleMain ==
    /\ pc = "idle"
    /\ args = NoArgs
    /\ installed = TRUE
    /\ files = [path \in {} |-> <<>>]
    /\ stdin = <<>>
    /\ main_data = Unset
    /\ md = Unset
    /\ stdout = <<>>
    /\ stderr = <<>>
    /\ exit_code = Unset
IdleTranslate ==
    /\ asked = EmptyCache
    /\ first_reply = EmptyCache
    /\ last = NoCall

-----------------------------------------------------------------------------
(* Sequences of translate_text calls in one process.                       *)

RECURSIVE SumOver(_, _)
SumOver(f, S) ==
    IF S = {} THEN 0
    ELSE LET k == CHOOSE x \in S : TRUE IN f[k] + SumOver(f, S \ {k})

InitTranslate ==
    /\ docs = <<>>
    /\ IdleMain
    /\ translator \in {NoTranslator, Translator("zh-CN"), Translator("en")}
    /\ translate_cache = EmptyCache
    /\ asked = EmptyCache
    /\ first_reply = EmptyCache
    /\ last = NoCall
    /\ IdleHarness

\* One call translate_text(text); the provider, if reached, answers `reply`.
TranslateCall(text, reply) ==
    \E c \in {cleaned_text(text)},
       r \in {translate_text(text, translator, translate_cache, reply)} :
    LET called == r.path \in ProviderPaths
    IN  /\ called => SumOver(asked, DOMAIN asked) < MaxProviderCalls
        /\ translate_cache' = r.cache
        /\ asked' = IF called
                    THEN CachePut(asked, c, IF c \in DOMAIN asked THEN asked[c] + 1 ELSE 1)
                    ELSE asked
        /\ first_reply' = IF called /\ c \notin DOMAIN first_reply
                          THEN CachePut(first_reply, c, [val |-> r.ret, outcome |-> reply.kind])
                          ELSE first_reply
        /\ last' = [cleaned |-> c, blank |-> strip(text) = <<>>, decorated |-> c # text,
                    path |-> r.path, ret |-> r.ret, changed |-> r.cache # translate_cache]
        /\ UNCHANGED <<translator, hvars, docs, mvars>>

NextTranslate == \E text \in Texts, reply \in Replies : TranslateCall(text, reply)

SpecTranslate == InitTranslate /\ [][NextTranslate]_vars

-----------------------------------------------------------------------------
(* C1: with the translator enabled, no cleaned text reaches the provider   *)
(* twice, and a call whose cleaned text the provider was asked about       *)
(* before is answered with what that first provider call returned, failed  *)
(* and empty answers included.                                             *)
C1_OncePerCleanedText ==
    /\ \A c \in DOMAIN asked : asked[c] <= 1
    /\ last.cleaned \in DOMAIN asked =>
          /\ last.path \in ProviderPaths \cup {"hit"}
          /\ last.ret = first_reply[last.cleaned].val

\* A call whose raw text carries a URL or a mention is answered from the cache
\* after the provider failed on the same cleaned text.
C1_Witness ==
    /\ translator.set
    /\ last.path = "hit"
    /\ last.decorated
    /\ first_reply[last.cleaned].outcome = "raise"

(* C10: the provider is reached only with the translator set, a non-empty  *)
(* cleaned text and a text not judged in the target language; every other  *)
(* call returns the empty string on an early return, with no provider call *)
(* and the cache as it was; the cache never holds the empty key nor a key   *)
(* judged in the target language.                                          *)
C10_GateFrame ==
    /\ last.path \in ProviderPaths =>
          /\ translator.set
          /\ last.cleaned # <<>>
          /\ ~already_in_target_lang(last.cleaned, translator)
    /\ ( /\ last.path # "none"
         /\ \/ ~translator.set
            \/ last.blank
            \/ last.cleaned = <<>>
            \/ already_in_target_lang(last.cleaned, translator) )
       => /\ last.path \in EarlyPaths
          /\ last.ret = <<>>
          /\ ~last.changed
          /\ DOMAIN asked = DOMAIN translate_cache
    /\ <<>> \notin DOMAIN translate_cache
    /\ \A k \in DOMAIN translate_cache : ~already_in_target_lang(k, translator)

\* A text in the target language is turned away while the cache holds entries.
C10_Witness ==
    /\ last.path = "in_target"
    /\ translate_cache # EmptyCache

-----------------------------------------------------------------------------
(* One translate_text call on a text of known make-up, the cache empty.    *)

Rep(c, n) == [k \in 1..n |-> c]

Targets == {"zh-CN", "zh-TW", "ja", "ko", "en"}

\* Up to MaxScript characters of one script, then up to MaxLatin Latin
\* letters, bare or with a URL in front and a mention behind.
GateTexts ==
    {pre \o Rep(c, i) \o Rep("a", j) \o post :
        pre \in {<<>>, Urls \o <<" ">>}, post \in {<<>>, <<" ">> \o Mention},
        c \in Ideograph \cup Kana \cup Hangul, i \in 0..MaxScript, j \in 0..MaxLatin}

InitGate ==
    /\ docs = <<>>
    /\ IdleMain
    /\ translator \in {Translator(l) : l \in Targets}
    /\ translate_cache = EmptyCache
    /\ arg \in GateTexts
    /\ ret = Pending
    /\ IdleTranslate

ApplyTranslateText(reply) ==
    /\ ~ret.done
    /\ \E r \in {translate_text(arg, translator, translate_cache, reply)} :
          /\ ret' = Returned(r)
          /\ translate_cache' = r.cache
    /\ UNCHANGED <<translator, asked, first_reply, last, arg, docs, mvars>>

NextGate == \E reply \in Replies : ApplyTranslateText(reply)

SpecGate == InitGate /\ [][NextGate]_vars

\* The share of the target script in c is above the threshold of the language.
C3_Exceeds(target, c) ==
    \/ target \in {"zh-CN", "zh-TW"} /\ 10 * CountIn(c, Ideograph) > 3 * Len(c)
    \/ target = "ja" /\ 100 * CountIn(c, Kana) > 15 * Len(c)
    \/ target = "ko" /\ 10 * CountIn(c, Hangul) > 3 * Len(c)

(* C3: with a non-empty cleaned text, translate_text returns the empty     *)
(* string on the target-language return exactly when the share of the      *)
(* target script in the cleaned text is above 30% (zh*, ko) or 15% (ja);   *)
(* at or below it, and for any other target, the call goes on to the       *)
(* provider.                                                               *)
C3_SkipAboveThreshold ==
    (ret.done /\ cleaned_text(arg) # <<>>) =>
        IF C3_Exceeds(translator.target, cleaned_text(arg))
        THEN ret.val.path = "in_target" /\ ret.val.ret = <<>>
        ELSE ret.val.path \in ProviderPaths

\* A text skipped because of its cleaned form: with its URL and mention counted
\* the share would be below the threshold.
C3_Witness ==
    /\ ret.done
    /\ ret.val.path = "in_target"
    /\ arg # cleaned_text(arg)
    /\ ~C3_Exceeds(translator.target, arg)

-----------------------------------------------------------------------------
(* format_count.                                                           *)

Thousand == 1000
Million == 1000000

\* A count as json.loads gives it: absent or null (None), an integer, a
\* string that int() rejects (ValueError), a list or object (TypeError).
CountNone == [kind |-> "none", n |-> 0]
CountInt(n) == [kind |-> "int", n |-> n]
CountText == [kind |-> "text", n |-> 0]
CountObject == [kind |-> "object", n |-> 0]

RECURSIVE BitLen(_)
BitLen(q) == IF q = 0 THEN 0 ELSE 1 + BitLen(q \div 2)

\* The sign of fl(x) - x where x = m + r/d in units of the last of k binary
\* places still to come, under round-half-to-even: the double nearest to x.
RECURSIVE RoundSign(_, _, _, _)
RoundSign(r, d, k, odd) ==
    IF r = 0 THEN 0
    ELSE IF k = 0 THEN (IF 2 * r > d \/ (2 * r = d /\ odd) THEN 1 ELSE -1)
    ELSE RoundSign(IF 2 * r >= d THEN 2 * r - d ELSE 2 * r, d, k - 1, 2 * r >= d)

\* n / d for integers n >= d > 0: Python's true division gives the double
\* nearest to the quotient (53 significant bits); the sign of its error.
TrueDivSign(n, d) ==
    RoundSign(n % d, d, 53 - BitLen(n \div d), (n \div d) % 2 = 1)

\* The tenths shown by f"{n / d:.1f}": the decimal nearest to the double, a
\* double exactly half way between two going to the even one.
one_decimal_floor(n, d) == 10 * (n \div d) + (10 * (n % d)) \div d

one_decimal(n, d) ==
    LET t0 == 10 * (n \div d) + (10 * (n % d)) \div d
        r10 == (10 * (n % d)) % d
    IN  IF 2 * r10 > d THEN t0 + 1
        ELSE IF 2 * r10 < d THEN t0
        ELSE IF TrueDivSign(n, d) > 0 THEN t0 + 1
        ELSE IF TrueDivSign(n, d) < 0 THEN t0
        ELSE IF t0 % 2 = 0 THEN t0 ELSE t0 + 1

\* A number of tenths written with one decimal place.
Decimal1(t) == ToString(t \div 10) \o "." \o ToString(t % 10)

format_count(count) ==
    IF count.kind = "none" THEN "0"
    ELSE IF count.kind # "int" THEN "0"
    ELSE IF count.n >= Million THEN Decimal1(one_decimal(count.n, Million)) \o "M"
    ELSE IF count.n >= Thousand THEN Decimal1(one_decimal(count.n, Thousand)) \o "K"
    ELSE ToString(count.n)

CountPivots == {0, 1000, 1250, 1500, 999950, 1000000, 1050000, 1250000, 1950000,
                2000000}
CountInputs ==
    {CountNone, CountText, CountObject}
        \cup {CountInt(p + k) : p \in CountPivots, k \in (0 - MaxWindow)..MaxWindow}

InitCount ==
    /\ docs = <<>>
    /\ IdleMain
    /\ arg \in CountInputs
    /\ ret = Pending
    /\ translator = NoTranslator
    /\ translate_cache = EmptyCache
    /\ IdleTranslate

ApplyFormatCount ==
    /\ ~ret.done
    /\ ret' = Returned(format_count(arg))
    /\ UNCHANGED <<tvars, arg, docs, mvars>>

SpecCount == InitCount /\ [][ApplyFormatCount]_vars

\* s shows n / unit to one decimal place, followed by the suffix: some number
\* of tenths t, no further than half a tenth from n / unit.
C7_Shows(s, n, unit, suffix) ==
    \E t \in {one_decimal_floor(n, unit), one_decimal_floor(n, unit) + 1} :
        /\ s = Decimal1(t) \o suffix
        /\ 2 * (t * (unit \div 10) - n) <= unit \div 10
        /\ 2 * (n - t * (unit \div 10)) <= unit \div 10

(* C7: format_count shows n >= 1,000,000 as n/1,000,000 to one decimal     *)
(* place and "M", 1,000 <= n < 1,000,000 as n/1,000 to one decimal place    *)
(* and "K", a smaller n as the plain integer, an absent or non-numeric      *)
(* count as "0"; 1500 gives "1.5K" and 2000000 gives "2.0M".                *)
C7_FormatCount ==
    ret.done =>
        /\ IF arg.kind # "int" THEN ret.val = "0"
           ELSE IF arg.n >= 1000000 THEN C7_Shows(ret.val, arg.n, 1000000, "M")
           ELSE IF arg.n >= 1000 THEN C7_Shows(ret.val, arg.n, 1000, "K")
           ELSE ret.val = ToString(arg.n)
        /\ arg = CountInt(1500) => ret.val = "1.5K"
        /\ arg = CountInt(2000000) => ret.val = "2.0M"

\* A count half way between two tenths, rounded and given its suffix.
C7_Witness ==
    /\ ret.done
    /\ arg = CountInt(1050000)
    /\ ret.val = "1.1M"

-----------------------------------------------------------------------------
(* parse_twitter_date.                                                     *)

\* A createdAt value: a string matching "%a %b %d %H:%M:%S %z %Y" with the
\* fields it spells (off: the UTC offset in minutes, east positive), any
\* other string, or None.
Timestamp(y, mo, d, h, mi, sec, off) ==
    [kind |-> "timestamp", text |-> "", year |-> y, month |-> mo, day |-> d,
     hour |-> h, minute |-> mi, second |-> sec, off |-> off]
RawDate(str) ==
    [kind |-> "raw", text |-> str, year |-> 0, month |-> 0, day |-> 0,
     hour |-> 0, minute |-> 0, second |-> 0, off |-> 0]
NoDate ==
    [kind |-> "none", text |-> "", year |-> 0, month |-> 0, day |-> 0,
     hour |-> 0, minute |-> 0, second |-> 0, off |-> 0]

Pad2(n) == IF n < 10 THEN "0" \o ToString(n) ELSE ToString(n)

\* strftime("%Y-%m-%d %H:%M:%S UTC") of a datetime with these fields.
strftime(y, mo, d, h, mi, sec) ==
    ToString(y) \o "-" \o Pad2(mo) \o "-" \o Pad2(d) \o " "
        \o Pad2(h) \o ":" \o Pad2(mi) \o ":" \o Pad2(sec) \o " UTC"

\* The string parse_twitter_date returns.  strptime gives an aware datetime
\* whose fields are those written in the string; strftime prints them.
parse_twitter_date(date) ==
    IF date.kind = "timestamp"
    THEN strftime(date.year, date.month, date.day, date.hour, date.minute, date.second)
    ELSE IF date.kind = "raw" /\ date.text # "" THEN date.text
    ELSE "N/A"

IsLeap(y) == (y % 4 = 0 /\ y % 100 # 0) \/ y % 400 = 0
DaysIn(mo, y) ==
    IF mo = 2 THEN (IF IsLeap(y) THEN 29 ELSE 28)
    ELSE IF mo \in {4, 6, 9, 11} THEN 30 ELSE 31

\* Timestamps strptime accepts: calendar dates, with some UTC offsets.
DateInputs ==
    {NoDate, RawDate(""), RawDate("yesterday")} \cup
    {Timestamp(y, mo, d, h, mi, sec, off) :
        y \in {2023, 2024}, mo \in {1, 2, 3, 12}, d \in {1, 15, 28, 29, 31},
        h \in {0, 12, 23}, mi \in {0, 30}, sec \in {0, 59},
        off \in {0, 540, 330, 0 - 480}}

InitDate ==
    /\ docs = <<>>
    /\ IdleMain
    /\ arg \in {d \in DateInputs : d.kind = "timestamp" => d.day <= DaysIn(d.month, d.year)}
    /\ ret = Pending
    /\ translator = NoTranslator
    /\ translate_cache = EmptyCache
    /\ IdleTranslate

ApplyParseDate ==
    /\ ~ret.done
    /\ ret' = Returned(parse_twitter_date(arg))
    /\ UNCHANGED <<tvars, arg, docs, mvars>>

SpecDate == InitDate /\ [][ApplyParseDate]_vars

\* The UTC date and time of a timestamp: its fields moved back by its offset.
C8_InUTC(t) ==
    LET m == t.hour * 60 + t.minute - t.off
        shift == IF m < 0 THEN 0 - 1 ELSE IF m >= 1440 THEN 1 ELSE 0
        mm == m - shift * 1440
        d0 == t.day + shift
        prevMonth == IF t.month = 1 THEN 12 ELSE t.month - 1
        prevYear == IF t.month = 1 THEN t.year - 1 ELSE t.year
        nextMonth == IF t.month = 12 THEN 1 ELSE t.month + 1
        nextYear == IF t.month = 12 THEN t.year + 1 ELSE t.year
    IN  IF d0 < 1
        THEN strftime(prevYear, prevMonth, DaysIn(prevMonth, prevYear),
                      mm \div 60, mm % 60, t.second)
        ELSE IF d0 > DaysIn(t.month, t.year)
        THEN strftime(nextYear, nextMonth, 1, mm \div 60, mm % 60, t.second)
        ELSE strftime(t.year, t.month, d0, mm \div 60, mm % 60, t.second)

(* C8: parse_twitter_date maps a timestamp matching the pattern to the     *)
(* "YYYY-MM-DD HH:MM:SS UTC" string of its date and time in UTC, whatever   *)
(* its UTC offset.                                                         *)
C8_DateInUTC ==
    (ret.done /\ arg.kind = "timestamp") => ret.val = C8_InUTC(arg)

-----------------------------------------------------------------------------
(* The renderers.  A renderer threads the translator's state through its   *)
(* translate_text calls: st.cache is _translate_cache, st.replies what the  *)
(* provider will answer to the calls that reach it, in order, st.raised     *)
(* whether an exception is propagating, st.failed the cleaned texts the     *)
(* provider raised on.                                                     *)

EmptyDict == [k \in {} |-> <<>>]

\* dict.get(key, default)
get(d, key, default) == IF key \in DOMAIN d THEN d[key] ELSE default

RenderState(cache, replies) ==
    [cache |-> cache, replies |-> replies, raised |-> FALSE, failed |-> {}]

\* The translator state after a translate_text call that gave r.
after_call(st, r, cleaned) ==
    [cache |-> r.cache,
     replies |-> IF r.path \in ProviderPaths /\ st.replies # <<>> THEN Tail(st.replies)
                 ELSE st.replies,
     raised |-> r.raised,
     failed |-> IF r.path = "provider_raise" THEN st.failed \cup {cleaned} ELSE st.failed]

returned_with(st, r, cleaned) == [ret |-> r.ret, st |-> after_call(st, r, cleaned)]

\* translate_text(text) inside a renderer.
translated(text, tr, st) ==
    returned_with(st,
        translate_text(text, tr, st.cache,
                       IF st.replies = <<>> THEN ReplyNone ELSE Head(st.replies)),
        cleaned_text(text))

\* \w of a str pattern: letters, digits and the underscore, of any script.
WordChar == AsciiWord \cup Ideograph \cup Kana \cup Hangul

\* re.findall(r"#\w+", text), scanning from position i.
RECURSIVE hashtags_from(_, _)
hashtags_from(text, i) ==
    IF i > Len(text) THEN <<>>
    ELSE IF text[i] = "#" /\ RunEnd(text, i + 1, WordChar) > i + 1
    THEN <<SubSeq(text, i, RunEnd(text, i + 1, WordChar) - 1)>>
             \o hashtags_from(text, RunEnd(text, i + 1, WordChar))
    ELSE hashtags_from(text, i + 1)

\* text.split("\n")
RECURSIVE split_lines(_)
split_lines(text) ==
    IF \A i \in 1..Len(text) : text[i] # "\n" THEN <<text>>
    ELSE LET i == CHOOSE k \in 1..Len(text) :
                     text[k] = "\n" /\ \A j \in 1..(k - 1) : text[j] # "\n"
         IN  <<SubSeq(text, 1, i - 1)>> \o split_lines(SubSeq(text, i + 1, Len(text)))

\* sep.join(parts), the parts being sequences of pieces.
RECURSIVE join(_, _)
join(sep, parts) ==
    IF parts = <<>> THEN <<>>
    ELSE IF Len(parts) = 1 THEN parts[1]
    ELSE parts[1] \o <<sep>> \o join(sep, Tail(parts))

TranslationMark == "> **[yi]** "
DefaultDate == RawDate("")

\* tweet_url(author_username, tweet_id)
tweet_url(author_username, tweet_id) ==
    <<"https://x.com/", author_username, "/status/", tweet_id>>

\* The author's username as render_tweet_block reads it.
username_no_default(tweet) == get(get(tweet, "author", EmptyDict), "username", "")

username_of(tweet) == get(get(tweet, "author", EmptyDict), "username", "unknown")

\* The lines render_tweet_block appends for the text: one per line of it.
text_lines(indent, parts) == [k \in 1..Len(parts) |-> <<indent, "> ">> \o parts[k]]

\* The "Tags:" line, if the text has hashtags.
tag_lines(indent, hashtags) ==
    IF hashtags # <<>> THEN << <<indent, "> Tags: ">> \o join(" ", hashtags) >> ELSE <<>>

\* The body of render_tweet_block, given the stripped text and what
\* translate_text(text) gave: the lines returned and the translator state left.
tweet_block(tweet, indent, text, t) ==
    [st |-> t.st,
     lines |->
        << <<indent, "> **", get(get(tweet, "author", EmptyDict), "name", username_of(tweet)),
             "** ([@", username_of(tweet), "](https://x.com/", username_of(tweet), ")) - ",
             parse_twitter_date(get(tweet, "createdAt", DefaultDate))>>,
           <<indent, ">">> >>
        \o text_lines(indent, split_lines(text))
        \o (IF t.ret # <<>>
            THEN << <<indent, ">">>, <<indent, TranslationMark>> \o t.ret >>
            ELSE <<>>)
        \o << <<indent, ">">>,
              <<indent, "> Likes: **", format_count(get(tweet, "likeCount", CountInt(0))),
                "** | Retweets: **", format_count(get(tweet, "retweetCount", CountInt(0))),
                "** | Replies: **", format_count(get(tweet, "replyCount", CountInt(0))),
                "**">> >>
        \o tag_lines(indent, hashtags_from(text, 1))
        \o << <<indent, ">">>,
              <<indent, "> [View original](">>
                  \o tweet_url(username_of(tweet), get(tweet, "id", "")) \o <<")">>,
              <<>> >>]

render_tweet_block(tweet, indent, tr, st) ==
    tweet_block(tweet, indent, strip(get(tweet, "text", <<>>)),
                translated(strip(get(tweet, "text", <<>>)), tr, st))

\* lines.extend(...) after a heading, and the rule that ends an item.
item_lines(acc, heading, b) ==
    [st |-> b.st,
     lines |-> acc.lines \o << heading, <<>> >> \o b.lines \o << <<"---">>, <<>> >>]

search_heading(tweet, i) ==
    <<"### ", ToString(i), ". ", get(get(tweet, "author", EmptyDict), "name", "unknown"),
      " (@", get(get(tweet, "author", EmptyDict), "username", "unknown"), ")">>

\* The loop of render_search from item i on; acc holds the lines so far and
\* the translator state.  An exception ends the loop.
RECURSIVE search_items(_, _, _, _)
search_items(data, i, tr, acc) ==
    IF i > Len(data) \/ acc.st.raised THEN acc
    ELSE search_items(data, i + 1, tr,
            item_lines(acc, search_heading(data[i], i),
                       render_tweet_block(data[i], "", tr, acc.st)))

\* render_search(data, query) at time `now`.
render_search(data, query, now, tr, st) ==
    search_items(data, 1, tr,
        [st |-> st,
         lines |->
            << (IF query # "" THEN <<"# ", "X/Twitter Search: \"", query, "\"">>
                ELSE <<"# ", "X/Twitter Search Results">>),
               <<>>,
               <<"> Generated at ", now, " | Results: ", ToString(Len(data))>>,
               <<>>,
               <<"---">>,
               <<>> >>])

user_heading(tweet, i) ==
    <<"### ", ToString(i), ". [",
      parse_twitter_date(get(tweet, "createdAt", DefaultDate)), "]">>

\* The loop of render_user_tweets from item i on.
RECURSIVE user_items(_, _, _, _)
user_items(data, i, tr, acc) ==
    IF i > Len(data) \/ acc.st.raised THEN acc
    ELSE user_items(data, i + 1, tr,
            item_lines(acc, user_heading(data[i], i),
                       render_tweet_block(data[i], "", tr, acc.st)))

\* handle.startswith("@"), for the handles of the model.
StartsWithAt(handle) == handle \in {"@bob"}

\* display_handle of render_user_tweets.
display_handle(data, handle) ==
    IF handle # ""
    THEN (IF StartsWithAt(handle) THEN <<handle>> ELSE <<"@", handle>>)
    ELSE <<"@", get(IF data # <<>> THEN get(data[1], "author", EmptyDict) ELSE EmptyDict,
                    "username", "unknown")>>

\* render_user_tweets(data, handle) at time `now`.
render_user_tweets(data, handle, now, tr, st) ==
    user_items(data, 1, tr,
        [st |-> st,
         lines |->
            << <<"# ">> \o display_handle(data, handle) \o <<" - Recent Tweets">>,
               <<>>,
               <<"> Generated at ", now, " | Tweets: ", ToString(Len(data))>>,
               <<>>,
               <<"---">>,
               <<>> >>])

\* lines.extend(render_tweet_block(t)) in render_trending.
extend_lines(acc, b) == [st |-> b.st, lines |-> acc.lines \o b.lines]

\* The loop over an item's tweets in render_trending, from tweet k on.
RECURSIVE related_tweets(_, _, _, _)
related_tweets(tweets, k, tr, acc) ==
    IF k > Len(tweets) \/ acc.st.raised THEN acc
    ELSE related_tweets(tweets, k + 1, tr,
            extend_lines(acc, render_tweet_block(tweets[k], "", tr, acc.st)))

\* `if post_count:` for a count of the model.
Truthy(count) == count.kind \in {"text", "object"} \/ (count.kind = "int" /\ count.n # 0)

Unknown == <<"U", "n", "k", "n", "o", "w", "n">>

\* meta_parts of render_trending.
meta_parts(category, time_ago, post_count) ==
    (IF category # "" THEN << <<"**Category:** ", category>> >> ELSE <<>>)
    \o (IF time_ago # "" THEN << <<"**Time:** ", time_ago>> >> ELSE <<>>)
    \o (IF Truthy(post_count)
        THEN << <<"**Posts:** ", format_count(post_count)>> >> ELSE <<>>)

meta_lines(parts) == IF parts # <<>> THEN << join(" | ", parts), <<>> >> ELSE <<>>

\* The headline of item i and its meta line, h being translate_text(headline).
item_head(item, i, headline, acc, h) ==
    [st |-> h.st,
     lines |-> acc.lines
        \o (IF h.ret # <<>> /\ h.ret # headline
            THEN << <<"## ", ToString(i), ". ">> \o h.ret,
                    <<"_">> \o headline \o <<"_">>, <<>> >>
            ELSE << <<"## ", ToString(i), ". ">> \o headline, <<>> >>)
        \o meta_lines(meta_parts(get(item, "category", ""), get(item, "timeAgo", ""),
                                 get(item, "postCount", CountNone)))]

\* The description, d being translate_text(description).
described(description, acc, d) ==
    [st |-> d.st,
     lines |-> acc.lines
        \o (IF d.ret # <<>> /\ d.ret # description
            THEN << <<"_">> \o d.ret \o <<"_ (">> \o description \o <<")">>, <<>> >>
            ELSE << <<"_">> \o description \o <<"_">>, <<>> >>)]

item_description(description, tr, acc) ==
    IF description = <<>> \/ acc.st.raised THEN acc
    ELSE described(description, acc, translated(description, tr, acc.st))

item_tweets(tweets, tr, acc) ==
    IF tweets = <<>> \/ acc.st.raised THEN acc
    ELSE related_tweets(tweets, 1, tr,
            [st |-> acc.st, lines |-> acc.lines \o << <<"### Related Tweets">>, <<>> >>])

item_end(acc) == [st |-> acc.st, lines |-> acc.lines \o << <<"---">>, <<>> >>]

\* One pass of the loop of render_trending: item number i.
trending_item(item, i, tr, acc) ==
    item_end(
        item_tweets(get(item, "tweets", <<>>), tr,
            item_description(get(item, "description", <<>>), tr,
                item_head(item, i, get(item, "headline", Unknown), acc,
                          translated(get(item, "headline", Unknown), tr, acc.st)))))

\* The loop of render_trending from item i on.
RECURSIVE trending_items(_, _, _, _)
trending_items(data, i, tr, acc) ==
    IF i > Len(data) \/ acc.st.raised THEN acc
    ELSE trending_items(data, i + 1, tr, trending_item(data[i], i, tr, acc))

\* render_trending(data, title) at time `now`; title "" stands for None.
render_trending(data, title, now, tr, st) ==
    trending_items(data, 1, tr,
        [st |-> st,
         lines |->
            << <<"# ", IF title # "" THEN title ELSE "X/Twitter Trending">>,
               <<>>,
               <<"> Generated at ", now>>,
               <<>>,
               <<"---">>,
               <<>> >>])

\* The renderer main() picks for a mode, with the option that goes with it.
render(mode, data, option, now, tr, st) ==
    IF mode = "trending" THEN render_trending(data, option, now, tr, st)
    ELSE IF mode = "search" THEN render_search(data, option, now, tr, st)
    ELSE render_user_tweets(data, option, now, tr, st)

-----------------------------------------------------------------------------
(* The renderers on one tweet record with some of its fields missing.      *)

TweetFields ==
    {"author", "text", "createdAt", "likeCount", "retweetCount", "replyCount", "id"}

FullAuthor == [name |-> "Alice", username |-> "alice"]
FullTweet ==
    [author |-> FullAuthor,
     text |-> <<"a", " ", "#", "a">>,
     createdAt |-> Timestamp(2024, 1, 5, 12, 30, 0, 0),
     likeCount |-> CountInt(1500),
     retweetCount |-> CountInt(7),
     replyCount |-> CountInt(2000000),
     id |-> "42"]

\* The tweet with the fields S only, its author with the fields A only.
TweetWith(S, A) ==
    [f \in S |-> IF f = "author" THEN [g \in A |-> FullAuthor[g]] ELSE FullTweet[f]]

TweetInputs == {TweetWith(S, A) : S \in SUBSET TweetFields, A \in SUBSET {"name", "username"}}

Clock == {"2026-11-06 10:00 UTC", "2026-11-06 10:01 UTC"}

InitTweet ==
    /\ docs = <<>>
    /\ IdleMain
    /\ arg \in TweetInputs
    /\ ret = Pending
    /\ translator \in {NoTranslator, Translator("en")}
    /\ translate_cache = EmptyCache
    /\ IdleTranslate

\* The call returned `out`, or raised.
RenderReturns(name, out) ==
    /\ ret' = Returned([renderer |-> name, lines |-> out.lines, raised |-> out.st.raised])
    /\ translate_cache' = out.st.cache
    /\ UNCHANGED <<translator, asked, first_reply, last, arg, docs, mvars>>

ApplyRenderTweetBlock(replies) ==
    /\ ~ret.done
    /\ \E out \in {render_tweet_block(arg, "", translator,
                        RenderState(translate_cache, replies))} :
          RenderReturns("render_tweet_block", out)

ApplyRenderSearch(replies, now) ==
    /\ ~ret.done
    /\ \E out \in {render_search(<<arg>>, "", now, translator,
                        RenderState(translate_cache, replies))} :
          RenderReturns("render_search", out)

ApplyRenderUserTweets(replies, now) ==
    /\ ~ret.done
    /\ \E out \in {render_user_tweets(<<arg>>, "", now, translator,
                        RenderState(translate_cache, replies))} :
          RenderReturns("render_user_tweets", out)

ApplyRenderTrending(replies, now) ==
    /\ ~ret.done
    /\ \E out \in {render_trending(<<[tweets |-> <<arg>>]>>, "", now, translator,
                        RenderState(translate_cache, replies))} :
          RenderReturns("render_trending", out)

NextTweet ==
    \E r1 \in Replies, now \in Clock :
        \/ ApplyRenderTweetBlock(<<r1>>)
        \/ ApplyRenderSearch(<<r1>>, now)
        \/ ApplyRenderUserTweets(<<r1>>, now)
        \/ \E r2 \in Replies : ApplyRenderTrending(<<r1, r2>>, now)

SpecTweet == InitTweet /\ [][NextTweet]_vars

\* The lines of L whose second piece is `marker`.
C6_Lines(L, marker) == {i \in 1..Len(L) : Len(L[i]) >= 2 /\ L[i][2] = marker}

C6_NoUsername(tweet) ==
    "author" \notin DOMAIN tweet \/ "username" \notin DOMAIN tweet.author

(* C6: on a tweet with any of its optional fields missing every renderer   *)
(* returns, with the block complete, "unknown" where a missing username     *)
(* goes, "N/A" where a missing creation date goes and "0" where a missing   *)
(* count goes; fields that are present are shown.                          *)
C6_Defaults ==
    ret.done =>
        LET L == ret.val.lines
            head == C6_Lines(L, "> **")
            stats == C6_Lines(L, "> Likes: **")
            link == C6_Lines(L, "> [View original](")
            user == IF C6_NoUsername(arg) THEN "unknown" ELSE "alice"
            date == IF "createdAt" \in DOMAIN arg THEN "2024-01-05 12:30:00 UTC"
                    ELSE "N/A"
            shown(f, v) == IF f \in DOMAIN arg THEN v ELSE "0"
        IN  /\ ~ret.val.raised
            /\ Cardinality(head) = 1 /\ Cardinality(stats) = 1 /\ Cardinality(link) = 1
            /\ \A i \in head : L[i][5] = user /\ L[i][7] = user /\ L[i][9] = date
            /\ \A i \in link : L[i][4] = user
            /\ \A i \in stats :
                  /\ L[i][3] = shown("likeCount", "1.5K")
                  /\ L[i][5] = shown("retweetCount", "7")
                  /\ L[i][7] = shown("replyCount", "2.0M")
            /\ ret.val.renderer = "render_search" => L[7][6] = user
            /\ ret.val.renderer = "render_user_tweets" =>
                  L[1][3] = user /\ L[7][4] = date

\* render_trending returned for a tweet with no field at all.
C6_Witness ==
    /\ ret.done
    /\ arg = EmptyDict
    /\ ret.val.renderer = "render_trending"
    /\ \E i \in C6_Lines(ret.val.lines, "> **") : ret.val.lines[i][5] = "unknown"

-----------------------------------------------------------------------------
(* A renderer called more than once in one process on the same arguments.  *)

MaxItems == 2
MaxRenders == 2

Modes == {"trending", "search", "user"}

TweetA == [author |-> FullAuthor, text |-> <<"a">>, id |-> "1"]
TweetB == [text |-> <<"b", " ">> \o Urls, likeCount |-> CountInt(1500)]
TweetA2 == [author |-> [username |-> "bob"], text |-> <<"a", " ">> \o Mention]
Tweets == {TweetA, TweetB, TweetA2}

Items ==
    { [headline |-> <<"a">>, description |-> <<"b">>, category |-> "Tech",
       postCount |-> CountInt(1500), tweets |-> <<TweetA>>],
      [headline |-> <<"b">>, timeAgo |-> "2h"],
      [tweets |-> <<TweetA2, TweetB>>] }

\* The lists of at most MaxItems records of S.
Lists(S) == UNION {[1..n -> S] : n \in 0..MaxItems}

\* What the provider answers to the successive calls of one rendering.
Oracles == [1..2 -> Replies]

InitRender ==
    /\ IdleMain
    /\ IdleTranslate
    /\ ret = Pending
    /\ docs = <<>>
    /\ translator \in {NoTranslator, Translator("zh-CN")}
    /\ translate_cache = EmptyCache
    /\ \E mode \in Modes, option \in {"", "AI"} :
          \E list \in Lists(IF mode = "trending" THEN Items ELSE Tweets) :
              arg = [mode |-> mode, data |-> list, option |-> option]

\* One call of the renderer of arg.mode at time `now`.
Render(replies, now) ==
    /\ Len(docs) < MaxRenders
    /\ \E out \in {render(arg.mode, arg.data, arg.option, now, translator,
                          RenderState(translate_cache, replies))} :
          /\ docs' = Append(docs, [lines |-> out.lines, raised |-> out.st.raised,
                                   failed |-> out.st.failed, now |-> now])
          /\ translate_cache' = out.st.cache
    /\ UNCHANGED <<translator, asked, first_reply, last, hvars, mvars>>

NextRender ==
    \E now \in Clock :
        \E replies \in (IF translator.set THEN Oracles ELSE {<<>>}) : Render(replies, now)

SpecRender == InitRender /\ [][NextRender]_vars

\* The tweets a rendering of `a` shows, in the order of their blocks.
RECURSIVE C2_TweetsOf(_)
C2_TweetsOf(items) ==
    IF items = <<>> THEN <<>>
    ELSE get(Head(items), "tweets", <<>>) \o C2_TweetsOf(Tail(items))

C2_Tweets(a) == IF a.mode = "trending" THEN C2_TweetsOf(a.data) ELSE a.data

\* The k-th smallest element of the set S of numbers.
C2_Nth(S, k) == CHOOSE x \in S : Cardinality({y \in S : y < x}) = k - 1

\* The cleaned texts the provider raised on in one of the first n renderings.
C2_FailedBy(n) == UNION {docs[j].failed : j \in 1..n}

(* C2: no rendering ends with the provider's exception; a text the provider *)
(* raised on is cached as the empty string translate_text returned; every   *)
(* item and every tweet of the input has its section in the output; and the *)
(* block of a tweet, the headline and the description whose text the        *)
(* provider raised on carry the original text and no translation.           *)
C2_ProviderErrorContained ==
    \A n \in 1..Len(docs) :
        LET L == docs[n].lines
            tweets == C2_Tweets(arg)
            heads == C6_Lines(L, "> **")
            ends == C6_Lines(L, "> [View original](")
            marks == C6_Lines(L, TranslationMark)
            failed == C2_FailedBy(n)
        IN  /\ ~docs[n].raised
            /\ \A c \in failed : c \in DOMAIN translate_cache /\ translate_cache[c] = <<>>
            /\ Cardinality(heads) = Len(tweets)
            /\ Cardinality(ends) = Len(tweets)
            /\ Cardinality({i \in 1..Len(L) : L[i] = <<"---">>}) = Len(arg.data) + 1
            /\ \A k \in 1..Len(tweets) :
                  cleaned_text(get(tweets[k], "text", <<>>)) \in failed =>
                      /\ \A m \in marks : ~(C2_Nth(heads, k) < m /\ m < C2_Nth(ends, k))
                      /\ L[C2_Nth(heads, k) + 2] = <<"", "> ">> \o tweets[k].text
            /\ arg.mode = "trending" =>
                  \A k \in 1..Len(arg.data) :
                      /\ ("headline" \in DOMAIN arg.data[k]
                            /\ cleaned_text(arg.data[k].headline) \in failed) =>
                            \E i \in 1..Len(L) :
                                L[i] = <<"## ", ToString(k), ". ">> \o arg.data[k].headline
                      /\ ("description" \in DOMAIN arg.data[k]
                            /\ cleaned_text(arg.data[k].description) \in failed) =>
                            \E i \in 1..Len(L) :
                                L[i] = <<"_">> \o arg.data[k].description \o <<"_">>

\* A search rendering in which the provider raised on the first tweet's text
\* and the second tweet still got its translation line.
C2_Witness ==
    /\ translator.set
    /\ arg.mode = "search"
    /\ arg.data = <<TweetA, TweetB>>
    /\ Len(docs) >= 1
    /\ docs[1].failed = {<<"a">>}
    /\ C6_Lines(docs[1].lines, TranslationMark) # {}

(* C5: any two renderings of the same arguments in one process have the    *)
(* same lines, except that line 3 may differ in its timestamp, whatever    *)
(* the provider answered during either.                                    *)
C5_SameButTimestamp ==
    \A m, n \in 1..Len(docs) :
        LET A == docs[m].lines
            B == docs[n].lines
        IN  /\ ~docs[m].raised
            /\ Len(A) = Len(B)
            /\ \A i \in 1..Len(A) : i # 3 => A[i] = B[i]
            /\ Len(A[3]) = Len(B[3])
            /\ \A j \in 1..Len(A[3]) : j # 2 => A[3][j] = B[3][j]
            /\ A[3][2] = docs[m].now /\ B[3][2] = docs[n].now

\* Two trending renderings at different times, the first of which saw the
\* provider raise on one text and translate another.
C5_Witness ==
    /\ translator.set
    /\ arg.mode = "trending"
    /\ Len(docs) = 2
    /\ docs[1].now # docs[2].now
    /\ docs[1].failed # {}
    /\ C6_Lines(docs[2].lines, TranslationMark) # {}

-----------------------------------------------------------------------------
(* main(): the command line, the input, and what the process writes.       *)

WARN_PREFIX == "<warn>"
INFO_PREFIX == "<info>"

\* The JSON values of the model.  An object is written as one token of the
\* input: "{}" is the empty object and "{t}" an object with a text and a
\* headline, both "a".
JsonArray(items) == [kind |-> "array", items |-> items]
JsonObject(fields) == [kind |-> "object", fields |-> fields]
JsonNumber == [kind |-> "number"]
ObjectTokens == {"{}", "{t}"}
object_of(token) ==
    IF token = "{}" THEN JsonObject(EmptyDict)
    ELSE JsonObject([text |-> <<"a">>, headline |-> <<"a">>])

\* The first position from i on that holds no JSON whitespace.
RECURSIVE skip_ws(_, _)
skip_ws(s, i) == IF i <= Len(s) /\ s[i] \in Whitespace THEN skip_ws(s, i + 1) ELSE i

JSONDecodeError == [ok |-> FALSE, val |-> JsonNumber, next |-> 0]
Parsed(v, next) == [ok |-> TRUE, val |-> v, next |-> next]

\* json's scanner: the value that starts at position i (whitespace skipped),
\* and the position after it.
RECURSIVE parse_value(_, _)
RECURSIVE parse_items(_, _, _)
RECURSIVE after_item(_, _, _, _)
parse_at(s, j) ==
    IF j > Len(s) THEN JSONDecodeError
    ELSE IF s[j] \in ObjectTokens THEN Parsed(object_of(s[j]), j + 1)
    ELSE IF s[j] = "1" THEN Parsed(JsonNumber, j + 1)
    ELSE IF s[j] # "[" THEN JSONDecodeError
    ELSE IF skip_ws(s, j + 1) <= Len(s) /\ s[skip_ws(s, j + 1)] = "]"
    THEN Parsed(JsonArray(<<>>), skip_ws(s, j + 1) + 1)
    ELSE parse_items(s, j + 1, <<>>)

parse_value(s, i) == parse_at(s, skip_ws(s, i))

\* The rest of an array after the item r: a comma and more, or the bracket.
after_item(s, r, k, acc) ==
    IF ~r.ok \/ k > Len(s) THEN JSONDecodeError
    ELSE IF s[k] = "," THEN parse_items(s, k + 1, Append(acc, r.val))
    ELSE IF s[k] = "]" THEN Parsed(JsonArray(Append(acc, r.val)), k + 1)
    ELSE JSONDecodeError

parse_items(s, i, acc) ==
    after_item(s, parse_value(s, i),
               IF parse_value(s, i).ok THEN skip_ws(s, parse_value(s, i).next) ELSE 0, acc)

\* json.loads(s): one value and nothing but whitespace after it.
whole_text(s, r) ==
    IF r.ok /\ skip_ws(s, r.next) > Len(s) THEN Parsed(r.val, r.next) ELSE JSONDecodeError

json_loads(s) == whole_text(s, parse_value(s, 1))

\* l.startswith(WARN_PREFIX) or l.startswith(INFO_PREFIX)
is_log_line(l) == l # <<>> /\ l[1] \in {WARN_PREFIX, INFO_PREFIX}

\* "\n".join(json_lines) for the text read from standard input.
json_text(raw) == join("\n", SelectSeq(split_lines(strip(raw)), LAMBDA l : ~is_log_line(l)))

isinstance_container(v) == v.kind \in {"array", "object"}

\* isinstance(data, list)
isinstance_list(v) == v.kind = "array"

\* not data
falsy(v) ==
    \/ v.kind = "array" /\ v.items = <<>>
    \/ v.kind = "object" /\ DOMAIN v.fields = {}

\* The index of the first element of the list that is no object, or 0.
first_non_object(items) ==
    IF \A i \in 1..Len(items) : items[i].kind = "object" THEN 0
    ELSE CHOOSE i \in 1..Len(items) :
            items[i].kind # "object" /\ \A j \in 1..(i - 1) : items[j].kind = "object"

\* The first n elements of the list as the dicts the renderers read.
dicts(items, n) == [i \in 1..n |-> items[i].fields]

\* One "Translation warning" line on stderr for each provider failure.
warnings(failed) == [i \in 1..Cardinality(failed) |-> "Translation warning"]

\* The texts of the model: a JSON text or a broken one, alone or between lines
\* of other output.
Contents ==
    {before \o payload \o after :
        before \in { <<>>,
                     <<WARN_PREFIX, "m", "\n">>,
                     <<INFO_PREFIX, "m", "\n">>,
                     <<"m", "\n">>,
                     <<" ", "\n", WARN_PREFIX, "\n">> },
        payload \in { <<"[", "]">>,
                      <<"[", "{}", "]">>,
                      <<"[", "{t}", ",", "\n", " ", "{}", "]">>,
                      <<"[", "\n", WARN_PREFIX, "m", "\n", "{t}", "]">>,
                      <<"{}">>,
                      <<"1">>,
                      <<"[", "{t}", ",", "1", "]">>,
                      <<"[", "{}">>,
                      <<"[", "{t}", ",", "]">>,
                      <<>> },
        after \in { <<>>, <<"\n">>, <<"\n", INFO_PREFIX, "m">> }}

\* The state after parse_args(): a command line and the input it names.
Init ==
    /\ IdleTranslate
    /\ IdleHarness
    /\ docs = <<>>
    /\ translator = NoTranslator
    /\ translate_cache = EmptyCache
    /\ pc = "translate"
    /\ \E mode \in Modes, output \in {"", "out.md"}, option \in {"", "AI"},
          lang \in {"", "zh-CN"}, file \in {"", "in.json"} :
          args = [mode |-> mode, file |-> file, output |-> output, option |-> option,
                  translate |-> lang]
    /\ installed \in (IF args.translate = "" THEN {TRUE} ELSE BOOLEAN)
    /\ \E text \in Contents :
          \/ args.file = "" /\ stdin = text /\ files = [path \in {} |-> <<>>]
          \/ args.file # "" /\ stdin = <<>> /\ files = [path \in {args.file} |-> text]
          \/ args.file # "" /\ stdin = <<>> /\ files = [path \in {} |-> <<>>]
    /\ main_data = Unset
    /\ md = Unset
    /\ stdout = <<>>
    /\ stderr = <<>>
    /\ exit_code = Unset

\* print(message, file=sys.stderr); sys.exit(1)
Exit1(message) ==
    /\ stderr' = Append(stderr, message)
    /\ exit_code' = Value(1)
    /\ pc' = "exited"

\* if args.translate: init_translator(args.translate)
MainTranslate ==
    /\ pc = "translate"
    /\ IF args.translate = ""
       THEN pc' = "load" /\ UNCHANGED <<translator, stderr, exit_code>>
       ELSE IF installed
       THEN /\ translator' = Translator(args.translate)
            /\ pc' = "load"
            /\ UNCHANGED <<stderr, exit_code>>
       ELSE /\ Exit1("Error: deep-translator not installed")
            /\ UNCHANGED translator
    /\ UNCHANGED <<translate_cache, asked, first_reply, last, hvars, docs, args, installed,
                   files, stdin, main_data, md, stdout>>

\* json.load / json.loads gave r.
Loaded(r) ==
    IF r.ok
    THEN main_data' = Value(r.val) /\ pc' = "check" /\ UNCHANGED <<stderr, exit_code>>
    ELSE Exit1("Error: Invalid JSON input") /\ UNCHANGED main_data

\* The try block of main() with args.file given.
MainLoadFile ==
    /\ pc = "load"
    /\ args.file # ""
    /\ IF args.file \in DOMAIN files
       THEN \E r \in {json_loads(files[args.file])} : Loaded(r)
       ELSE Exit1("Error: File not found") /\ UNCHANGED main_data
    /\ UNCHANGED <<tvars, hvars, docs, args, installed, files, stdin, md, stdout>>

\* The try block of main() reading standard input.
MainLoadStdin ==
    /\ pc = "load"
    /\ args.file = ""
    /\ \E r \in {json_loads(json_text(stdin))} : Loaded(r)
    /\ UNCHANGED <<tvars, hvars, docs, args, installed, files, stdin, md, stdout>>

\* The isinstance check and the warning for an empty list.
MainCheck ==
    /\ pc = "check"
    /\ IF ~isinstance_list(main_data.val)
       THEN Exit1("Error: Expected JSON array")
       ELSE /\ pc' = "render"
            /\ stderr' = IF falsy(main_data.val)
                         THEN Append(stderr, "Warning: No data returned") ELSE stderr
            /\ UNCHANGED exit_code
    /\ UNCHANGED <<tvars, hvars, docs, args, installed, files, stdin, main_data, md, stdout>>

\* The renderer returned `out` after reading the first n elements; an element
\* that is no object ends the process with an AttributeError.
Rendered(out, crashed) ==
    /\ translate_cache' = out.st.cache
    /\ IF crashed
       THEN /\ stderr' = stderr \o warnings(out.st.failed) \o <<"Traceback: AttributeError">>
            /\ exit_code' = Value(1)
            /\ pc' = "exited"
            /\ UNCHANGED md
       ELSE /\ stderr' = stderr \o warnings(out.st.failed)
            /\ md' = Value(out.lines)
            /\ pc' = "output"
            /\ UNCHANGED exit_code

\* md = render_...(data, ...)
MainRender(replies, now) ==
    /\ pc = "render"
    /\ \E bad \in {first_non_object(main_data.val.items)} :
       \E out \in {render(args.mode,
                          dicts(main_data.val.items,
                                IF bad = 0 THEN Len(main_data.val.items) ELSE bad - 1),
                          args.option, now, translator,
                          RenderState(translate_cache, replies))} :
          Rendered(out, bad # 0)
    /\ UNCHANGED <<translator, asked, first_reply, last, hvars, docs, args, installed,
                   files, stdin, main_data, stdout>>

\* The output file written, or the document printed.
MainOutput ==
    /\ pc = "output"
    /\ IF args.output # ""
       THEN /\ files' = CachePut(files, args.output, md.val)
            /\ stderr' = Append(stderr, "Written to")
            /\ UNCHANGED stdout
       ELSE /\ stdout' = Append(stdout, md.val)
            /\ UNCHANGED <<files, stderr>>
    /\ exit_code' = Value(0)
    /\ pc' = "done"
    /\ UNCHANGED <<tvars, hvars, docs, args, installed, stdin, main_data, md>>

Next ==
    \/ MainTranslate
    \/ MainLoadFile
    \/ MainLoadStdin
    \/ MainCheck
    \/ \E reply \in Replies, now \in Clock : MainRender(<<reply>>, now)
    \/ MainOutput

Spec == Init /\ [][Next]_vars

\* The text main() hands to the JSON parser.
C4_Parsed ==
    IF args.file # ""
    THEN (IF args.file \in DOMAIN files THEN json_loads(files[args.file])
          ELSE JSONDecodeError)
    ELSE json_loads(json_text(stdin))

\* The named file is missing, the text is no JSON, or the JSON is no array.
C4_BadInput == pc # "idle" /\ (~C4_Parsed.ok \/ C4_Parsed.val.kind # "array")

(* C4: in every mode and for both input sources, when the file is missing,  *)
(* the text given to the parser is not JSON or the JSON is not an array,    *)
(* main() never reaches the renderer, md stays unset, nothing is printed to *)
(* stdout, the -o file is not created, and the process, once ended, has     *)
(* status 1 and an error message last on stderr.                            *)
C4_RejectsBadInput ==
    C4_BadInput =>
        /\ pc \in {"translate", "load", "check", "exited"}
        /\ md = Unset
        /\ stdout = <<>>
        /\ args.output # "" => args.output \notin DOMAIN files
        /\ pc = "check" => ~isinstance_list(main_data.val)
        /\ pc = "exited" =>
              /\ exit_code = Value(1)
              /\ stderr # <<>>
              /\ stderr[Len(stderr)] \in
                    {"Error: deep-translator not installed", "Error: Invalid JSON input",
                     "Error: File not found", "Error: Expected JSON array"}

\* A JSON object on standard input, behind a log line, with -o given: the
\* process ended with status 1 and the output file does not exist.
C4_Witness ==
    /\ pc = "exited"
    /\ args.file = ""
    /\ args.output = "out.md"
    /\ stdin = <<WARN_PREFIX, "m", "\n", "{}">>
    /\ stderr = <<"Error: Expected JSON array">>
    /\ exit_code = Value(1)
    /\ "out.md" \notin DOMAIN files

\* The text of the input source has a line that begins with a log prefix.
C9_HasLogLine(text) ==
    \E i \in 1..Len(split_lines(text)) : is_log_line(split_lines(text)[i])

(* C9: for the file given with -f as for standard input, a text that is a  *)
(* JSON array once its log-prefix lines are removed is loaded as that      *)
(* array.                                                                  *)
C9_StripsLogLinesBothSources ==
    \A text \in {IF args.file = "" THEN stdin
                 ELSE IF args.file \in DOMAIN files THEN files[args.file] ELSE <<>>} :
        (/\ pc \in {"check", "render", "output", "done", "exited"}
         /\ ~(args.translate # "" /\ ~installed)
         /\ C9_HasLogLine(text)
         /\ json_loads(json_text(text)).ok
         /\ json_loads(json_text(text)).val.kind = "array")
        => main_data = Value(json_loads(json_text(text)).val)

====
